---- MODULE Spec2Model ----
(***************************************************************************)
(* The puzzle session of the Baylordle page (HomePage in src/app/page.tsx, *)
(* first variant, lines 1-1018): React state, the handlers toggleWord,     *)
(* submit, clear, shuffleNow, the effects that run after a render, the     *)
(* reveal timers and the browser's localStorage.                           *)
(*                                                                         *)
(* Strings are sequences of UTF-16 code units, so that sort() and join()   *)
(* are computed as JavaScript computes them.  A date "YYYY-MM-DD" is the   *)
(* triple <<y, m, d>> of its three zero-padded fields.  A nullable value   *)
(* is a sequence of length 0 (null) or 1.                                  *)
(***************************************************************************)
EXTENDS Integers, Sequences, FiniteSets, TLC

\* ------------------------------------------------------------------ data

APPLE  == <<65, 80, 80, 76, 69>>
PEAR   == <<80, 69, 65, 82>>
PLUM   == <<80, 76, 85, 77>>
KIWI   == <<75, 73, 87, 73>>
TWIST  == <<84, 87, 73, 83, 84>>
SLIDE  == <<83, 76, 73, 68, 69>>
WAVE   == <<87, 65, 86, 69>>
STEP   == <<83, 84, 69, 80>>
STACK  == <<83, 84, 65, 67, 75>>
QUEUE  == <<81, 85, 69, 85, 69>>
HEAP   == <<72, 69, 65, 80>>
TREE   == <<84, 82, 69, 69>>
KNIFE  == <<75, 78, 73, 70, 69>>
KNEE   == <<75, 78, 69, 69>>
KNOT   == <<75, 78, 79, 84>>
KNIGHT == <<75, 78, 73, 71, 72, 84>>

\* The four groups of the puzzle of src/data/puzzles.
GROUPS ==
    << [id |-> "y1", title |-> "KINDS OF FRUIT", color |-> "yellow",
        words |-> <<APPLE, PEAR, PLUM, KIWI>>],
       [id |-> "g1", title |-> "DANCE MOVES", color |-> "green",
        words |-> <<TWIST, SLIDE, WAVE, STEP>>],
       [id |-> "b1", title |-> "PROGRAMMING TERMS", color |-> "blue",
        words |-> <<STACK, QUEUE, HEAP, TREE>>],
       [id |-> "p1", title |-> "WORDS WITH SILENT KN", color |-> "purple",
        words |-> <<KNIFE, KNEE, KNOT, KNIGHT>>] >>

\* The puzzle list the route serves: the repository's entry first, then
\* entries of the same shape for later dates (a year end, a two-day gap).
PUZZLES ==
    << [date |-> <<2025, 12, 18>>, groups |-> GROUPS],
       [date |-> <<2025, 12, 31>>, groups |-> GROUPS],
       [date |-> <<2026, 1, 1>>,  groups |-> GROUPS],
       [date |-> <<2026, 1, 3>>,  groups |-> GROUPS] >>

\* ------------------------------------------------------- pure helpers

Range(s) == {s[i] : i \in 1..Len(s)}

null == <<>>

\* Mutant: Math.max answers its first argument.
Max_First(a, b) == a

Max(a, b) == IF a >= b THEN a ELSE b

\* a < b in the order of Array.prototype.sort() without a comparator:
\* strings compared code unit by code unit, a proper prefix first.
RECURSIVE StrLess(_, _)
StrLess(a, b) ==
    IF a = <<>> THEN b # <<>>
    ELSE IF b = <<>> THEN FALSE
    ELSE IF Head(a) # Head(b) THEN Head(a) < Head(b)
    ELSE StrLess(Tail(a), Tail(b))

\* arr.sort(): insertion into an already sorted prefix, stable.
RECURSIVE InsertSorted(_, _)
InsertSorted(w, s) ==
    IF s = <<>> THEN <<w>>
    ELSE IF StrLess(w, Head(s)) THEN <<w>> \o s
    ELSE <<Head(s)>> \o InsertSorted(w, Tail(s))

RECURSIVE Sort(_)
Sort(arr) ==
    IF arr = <<>> THEN <<>>
    ELSE InsertSorted(arr[Len(arr)], Sort(SubSeq(arr, 1, Len(arr) - 1)))

\* The code unit of "|".
SEP == 124

\* arr.join("|")
RECURSIVE Join(_)
Join(arr) ==
    IF arr = <<>> THEN <<>>
    ELSE IF Len(arr) = 1 THEN arr[1]
    ELSE arr[1] \o <<SEP>> \o Join(Tail(arr))

\* Mutant: the words are joined in click order, without sorting.
normalizeSet_Unsorted(arr) == Join(arr)

normalizeSet(arr) == Join(Sort(arr))

\* s.filter(keep)
RECURSIVE Filter(_, _)
Filter(s, keep) ==
    IF s = <<>> THEN <<>>
    ELSE IF Head(s) \in keep THEN <<Head(s)>> \o Filter(Tail(s), keep)
    ELSE Filter(Tail(s), keep)

\* { id, title, color, words: [...g.words] }
SolvedGroupOf(g) ==
    [id |-> g.id, title |-> g.title, color |-> g.color, words |-> g.words]

FlatWords(groups) == UNION {Range(groups[i].words) : i \in 1..Len(groups)}

\* ------------------------------------------------------------- dates

\* Days from 1970-01-01 to the civil date y-m-d (m in 1..12), the day count
\* behind Date.UTC.
DaysFromCivil(y, m, d) ==
    LET yy  == IF m <= 2 THEN y - 1 ELSE y
        era == yy \div 400
        yoe == yy - era * 400
        mp  == IF m > 2 THEN m - 3 ELSE m + 9
        doy == (153 * mp + 2) \div 5 + d - 1
        doe == yoe * 365 + yoe \div 4 - yoe \div 100 + doy
    IN  era * 146097 + doe - 719468

\* Date.UTC(year, monthIndex, day) / (24 * 60 * 60 * 1000), monthIndex in
\* 0..11.  Date.UTC of a calendar date is a whole number of days in
\* milliseconds, exact in a JavaScript number; the value is kept in days.
DateUTC(y, monthIndex, d) == DaysFromCivil(y, monthIndex + 1, d)

\* Math.round(n / d) for d > 0: the nearest integer, halves upward
MathRoundDiv(n, d) == (2 * n + d) \div (2 * d)

\* Mutant: the dates are compared as the numbers yyyymmdd.
daysBetween_Digits(a, b) ==
    (b[1] * 10000 + b[2] * 100 + b[3]) - (a[1] * 10000 + a[2] * 100 + a[3])

daysBetween(a, b) ==
    LET da == DateUTC(a[1], a[2] - 1, a[3])
        db == DateUTC(b[1], b[2] - 1, b[3])
    IN  MathRoundDiv(db - da, 1)

\* ----------------------------------------------------------- shuffle

\* A 32-bit word is <<hi, lo>>, its two 16-bit halves; the bitwise operators
\* of JavaScript and Math.imul work on such words (ToInt32 / ToUint32), and
\* every value of mulberry32 is used modulo 2^32 only.
Half == 65536

\* ToUint32(n) for 0 <= n < 2^31
Word(n) == <<(n \div Half) % Half, n % Half>>

RECURSIVE BitXor(_, _, _)
BitXor(a, b, n) ==
    IF n = 0 THEN 0
    ELSE ((a + b) % 2) + 2 * BitXor(a \div 2, b \div 2, n - 1)

RECURSIVE BitOr(_, _, _)
BitOr(a, b, n) ==
    IF n = 0 THEN 0
    ELSE (IF a % 2 = 1 \/ b % 2 = 1 THEN 1 ELSE 0)
         + 2 * BitOr(a \div 2, b \div 2, n - 1)

\* x ^ y
Xor32(x, y) == <<BitXor(x[1], y[1], 16), BitXor(x[2], y[2], 16)>>

\* x | y
Or32(x, y) == <<BitOr(x[1], y[1], 16), BitOr(x[2], y[2], 16)>>

\* x + y modulo 2^32
Add32(x, y) ==
    LET lo == x[2] + y[2]
    IN  <<(x[1] + y[1] + lo \div Half) % Half, lo % Half>>

\* x >>> n for 0 < n < 16
Shr32(x, n) ==
    LET p == 2 ^ n
    IN  <<x[1] \div p, (x[2] \div p) + (x[1] % p) * (Half \div p)>>

\* The product of two 16-bit numbers as a word, by 8-bit partial products.
Mul16(a, b) ==
    LET p0 == a * (b % 256)
        p1 == a * (b \div 256)
        t  == (p1 % 256) * 256 + p0
    IN  <<(p1 \div 256) + t \div Half, t % Half>>

\* Math.imul(x, y): the low 32 bits of the product
Imul32(x, y) ==
    LET p == Mul16(x[2], y[2])
    IN  <<(p[1] + Mul16(x[1], y[2])[2] + Mul16(x[2], y[1])[2]) % Half, p[2]>>

\* One call of the function mulberry32(seed) returns, from the generator
\* state s: the new state and the 32-bit numerator of the number returned.
mulberry32(s) ==
    LET s1 == Add32(s, <<27947, 31221>>)             \* seed += 0x6d2b79f5
        t1 == Imul32(Xor32(s1, Shr32(s1, 15)), Or32(s1, Word(1)))
        t2 == Xor32(t1, Add32(t1, Imul32(Xor32(t1, Shr32(t1, 7)),
                                         Or32(t1, Word(61)))))
    IN  [state |-> s1, out |-> Xor32(t2, Shr32(t2, 14))]

\* Math.floor((x / 4294967296) * n) for a numerator x and 0 < n <= 16
FloorMul(x, n) == (x[1] * n + (x[2] * n) \div Half) \div Half

\* Bound: the reshuffle counter the model lets a session reach.
MaxSeed == 1

\* The indices j the loop of seededShuffle draws for i = n - 1 down to 1.
RECURSIVE DrawsFrom(_, _)
DrawsFrom(s, i) ==
    IF i < 1 THEN <<>>
    ELSE LET r == mulberry32(s)
         IN  <<FloorMul(r.out, i + 1)>> \o DrawsFrom(r.state, i - 1)

\* Mutant: a[i] = a[j] without the other half of the swap.
RECURSIVE Swaps_Overwrite(_, _)
Swaps_Overwrite(a, js) ==
    IF js = <<>> THEN a
    ELSE Swaps_Overwrite(CHOOSE b \in {[a EXCEPT ![Len(js) + 1] = a[Head(js) + 1]]} : TRUE,
                         Tail(js))

\* [a[i], a[j]] = [a[j], a[i]] for i = Len(a) - 1 down to 1 (0-based), the
\* k-th pass taking j = js[k].
RECURSIVE Swaps(_, _)
Swaps(a, js) ==
    IF js = <<>> THEN a
    ELSE LET i == Len(js) + 1
             j == Head(js) + 1
         IN  Swaps(CHOOSE b \in {[a EXCEPT ![i] = a[j], ![j] = a[i]]} : TRUE,
                   Tail(js))

\* A run of the body of seededShuffle with the draws js: the caller's array
\* after the call and the array returned.  a = [...arr] is a new array, so
\* the swaps do not reach arr.
ShuffleRun(arr, js) ==
    [arr |-> arr, returned |-> Swaps(arr, js)]

\* The draws of the 16-word boards, by seed (a date's number plus a counter
\* of 0..MaxSeed), computed once.
BoardDraws ==
    [sd \in {PUZZLES[i].date[1] * 10000 + PUZZLES[i].date[2] * 100
                 + PUZZLES[i].date[3] + c : i \in 1..Len(PUZZLES), c \in 0..MaxSeed}
        |-> DrawsFrom(Word(sd), 15)]

seededShuffle(arr, seed) ==
    ShuffleRun(arr, IF Len(arr) = 16 /\ seed \in DOMAIN BoardDraws
                    THEN BoardDraws[seed]
                    ELSE DrawsFrom(Word(seed), Len(arr) - 1)).returned

\* Number(date.replaceAll("-", ""))
seedFromDate(date) == date[1] * 10000 + date[2] * 100 + date[3]

\* --------------------------------------------------------- share text

\* A text is the sequence of its characters, each a one-character string; a
\* coloured square is one character, written by its code point.
COLOR_EMOJI ==
    [yellow |-> "U+1F7E8", green |-> "U+1F7E9", blue |-> "U+1F7E6",
     purple |-> "U+1F7EA"]

NL == "\n"

\* String(n) for a number n >= 0, as the template literals format it.
RECURSIVE Decimal(_)
Decimal(n) ==
    IF n < 10 THEN <<<<"0", "1", "2", "3", "4", "5", "6", "7", "8", "9">>[n + 1]>>
    ELSE Decimal(n \div 10) \o Decimal(n % 10)

\* lines.join("\n")
RECURSIVE JoinLines(_)
JoinLines(lines) ==
    IF lines = <<>> THEN <<>>
    ELSE IF Len(lines) = 1 THEN lines[1]
    ELSE lines[1] \o <<NL>> \o JoinLines(Tail(lines))

\* Mutant: the share date keeps the order year/month/day of the date.
buildShareText_DateAsStored(a) ==
    LET mistakesUsed == 4 - a.mistakesLeft
        shareDate == Decimal(a.date[1]) \o <<"/">> \o Decimal(a.date[2])
                     \o <<"/">> \o Decimal(a.date[3])
        lines == << <<"B", "a", "y", "l", "o", "r", "d", "l", "e">>, shareDate >>
                 \o [i \in 1..Len(a.solved) |->
                        [k \in 1..4 |-> COLOR_EMOJI[a.solved[i].color]]]
                 \o << <<"M", "i", "s", "t", "a", "k", "e", "s", ":", " ">>
                       \o Decimal(mistakesUsed) >>
    IN  JoinLines(lines)

\* buildShareText({ date, solved, mistakesLeft }); date.split("-").map(Number)
\* is the date's triple of numbers.
buildShareText(a) ==
    LET mistakesUsed == 4 - a.mistakesLeft
        y == a.date[1]
        m == a.date[2]
        d == a.date[3]
        shareDate == Decimal(m) \o <<"/">> \o Decimal(d) \o <<"/">> \o Decimal(y)
        lines == << <<"B", "a", "y", "l", "o", "r", "d", "l", "e">>, shareDate >>
                 \o [i \in 1..Len(a.solved) |->
                        [k \in 1..4 |-> COLOR_EMOJI[a.solved[i].color]]]
                 \o << <<"M", "i", "s", "t", "a", "k", "e", "s", ":", " ">>
                       \o Decimal(mistakesUsed) >>
    IN  JoinLines(lines)

\* ------------------------------------------------------ localStorage

STATS_KEY == <<"baylordle_player_stats_v1", <<>> >>
DEVICE_KEY == <<"connections_device_id", <<>> >>

\* Mutant: one session key for every date.
getStateKeyForDate_NoDate(date) == <<"connections_state_", <<>> >>

getStateKeyForDate(date) == <<"connections_state_", date>>
getPlayedKeyForDate(date) == <<"connections_played_", date>>
getDebriefDismissKey(date) == <<"baylordle_debrief_dismissed_", date>>
StatsRecordedKey(date) == <<"baylordle_stats_recorded_", date>>
RevealDoneKey(date) == <<"baylordle_board_reveal_done_", date>>

\* localStorage.getItem(key): null, or the stored value
getItem(ls, key) == IF key \in DOMAIN ls THEN <<ls[key]>> ELSE null

\* localStorage.setItem(key, value)
setItem(ls, key, value) ==
    [k \in (DOMAIN ls) \cup {key} |-> IF k = key THEN value ELSE ls[k]]

\* Mutant: no stored flag reads as "true".
IsTrue_Never(item) == FALSE

IsTrue(item) == item = <<"true">>

\* getOrCreateDeviceId() on localStorage; the random UUID is one opaque value.
getOrCreateDeviceId(ls) ==
    IF getItem(ls, DEVICE_KEY) = null THEN setItem(ls, DEVICE_KEY, "uuid") ELSE ls

EmptyStats ==
    [totalPlayed |-> 0, totalCompleted |-> 0, currentStreak |-> 0,
     longestStreak |-> 0, lastCompletedDate |-> null,
     totalMistakesUsed |-> 0, totalSeconds |-> 0]

loadStats(ls) ==
    LET raw == getItem(ls, STATS_KEY)
    IN  IF raw = null THEN EmptyStats ELSE raw[1]

saveStats(ls, s) == setItem(ls, STATS_KEY, s)

\* --------------------------------------------------- derived values

\* Mutant: only a loss ends the game.
IsGameOver_LossOnly(ml, sv) == ml = 0

\* Mutant: only a win ends the game.
IsGameOver_WinOnly(ml, sv) == Len(sv) = 4

\* Mutant: the game counts as over from the first mistake.
IsGameOver_FirstMistake(ml, sv) == ml < 4 \/ Len(sv) = 4

IsGameOver(ml, sv) == ml = 0 \/ Len(sv) = 4
DidWin(sv) == Len(sv) = 4
IsLoss(ml, sv) == IsGameOver(ml, sv) /\ ~DidWin(sv)

\* Mutant: the longest streak is set to the streak of the win.
NextStats_NoMax(prev, date, ml, sv, secs) ==
    LET counted == [prev EXCEPT !.totalPlayed = @ + 1,
                                !.totalMistakesUsed = @ + (4 - ml),
                                !.totalSeconds = @ + secs]
        streak == IF prev.lastCompletedDate = null THEN 1
                  ELSE IF daysBetween(prev.lastCompletedDate[1], date) = 1
                       THEN prev.currentStreak + 1
                       ELSE 1
    IN  IF DidWin(sv)
        THEN [counted EXCEPT !.totalCompleted = @ + 1,
                             !.currentStreak = streak,
                             !.longestStreak = streak,
                             !.lastCompletedDate = <<date>>]
        ELSE [counted EXCEPT !.currentStreak = 0]

\* The next stats record of the recording effect.
NextStats(prev, date, ml, sv, secs) ==
    LET counted == [prev EXCEPT !.totalPlayed = @ + 1,
                                !.totalMistakesUsed = @ + (4 - ml),
                                !.totalSeconds = @ + secs]
        streak == IF prev.lastCompletedDate = null THEN 1
                  ELSE IF daysBetween(prev.lastCompletedDate[1], date) = 1
                       THEN prev.currentStreak + 1
                       ELSE 1
    IN  IF DidWin(sv)
        THEN [counted EXCEPT !.totalCompleted = @ + 1,
                             !.currentStreak = streak,
                             !.longestStreak = Max(@, streak),
                             !.lastCompletedDate = <<date>>]
        ELSE [counted EXCEPT !.currentStreak = 0]

\* Mutant: the effect does not look at the recorded flag of the date.
RecordStats_NoFlagCheck(ls, p, ml, sv, secs) ==
    IF p = null \/ ~IsGameOver(ml, sv) THEN ls
    ELSE setItem(saveStats(ls, NextStats(loadStats(ls), p[1].date, ml, sv, secs)),
                 StatsRecordedKey(p[1].date), "true")

\* The stats-recording effect on localStorage.
RecordStats(ls, p, ml, sv, secs) ==
    IF p = null \/ ~IsGameOver(ml, sv) THEN ls
    ELSE IF IsTrue(getItem(ls, StatsRecordedKey(p[1].date))) THEN ls
    ELSE setItem(saveStats(ls, NextStats(loadStats(ls), p[1].date, ml, sv, secs)),
                 StatsRecordedKey(p[1].date), "true")

\* GET of /api/puzzle/today
GET(puzzles, day) ==
    IF \E i \in 1..Len(puzzles) : puzzles[i].date = day
    THEN puzzles[CHOOSE i \in 1..Len(puzzles) :
                    /\ puzzles[i].date = day
                    /\ \A j \in 1..(i - 1) : puzzles[j].date # day]
    ELSE puzzles[Len(puzzles)]

\* -------------------------------------------------------------- state

VARIABLES
    puzzle,             \* null or <<Puzzle>>
    loading,
    seed,               \* the reshuffle counter
    selected,           \* the selected words, in click order
    mistakesLeft,
    solved,             \* the solved groups, in solve order
    message,
    lockedOut,
    guessedSets,        \* the signatures of the accepted submits
    secondsElapsed,
    debriefOpen,
    revealMode,
    revealGroupIndex,   \* 0-based, as in the code
    revealStepInGroup,  \* 0..4
    revealedGroups,
    localStorage,       \* key -> stored value
    today,              \* the calendar date the route sees
    loadEffect,         \* where the async function of the load effect is
    args,               \* a call of a pure function: null or <<arguments>>
    result,             \* what the call returned: null or <<value>>
    submitted           \* history: the word sets handed to submit

vars == <<puzzle, loading, seed, selected, mistakesLeft, solved, message,
          lockedOut, guessedSets, secondsElapsed, debriefOpen, revealMode,
          revealGroupIndex, revealStepInGroup, revealedGroups, localStorage,
          today, loadEffect, args, result, submitted>>

session == <<seed, selected, mistakesLeft, solved, guessedSets>>
reveal == <<revealMode, revealGroupIndex, revealStepInGroup, revealedGroups>>

\* Mutant: the page takes the game for over only when it is won.
isGameOver_WonOnly == DidWin(solved)

isGameOver == IsGameOver(mistakesLeft, solved)
didWin == DidWin(solved)
isLoss == isGameOver /\ ~didWin

solvedIds == {solved[i].id : i \in 1..Len(solved)}

\* puzzle.groups.filter((g) => !solvedIds.has(g.id))
GroupsToReveal(p, sv) ==
    LET ids == {sv[i].id : i \in 1..Len(sv)}
        keep == {g \in Range(p.groups) : g.id \notin ids}
    IN  Filter(p.groups, keep)

groupsToReveal == IF puzzle = null THEN <<>> ELSE GroupsToReveal(puzzle[1], solved)

\* puzzle && revealMode ? puzzle.groups[revealGroupIndex] : null
activeRevealGroup ==
    IF puzzle # null /\ revealMode /\ revealGroupIndex + 1 \in 1..Len(puzzle[1].groups)
    THEN <<puzzle[1].groups[revealGroupIndex + 1]>>
    ELSE null

\* activeRevealGroup.words.slice(0, revealStepInGroup)
activeRevealWords ==
    IF activeRevealGroup # null /\ revealMode
    THEN SubSeq(activeRevealGroup[1].words, 1, revealStepInGroup)
    ELSE <<>>

finalSolutionRows ==
    IF puzzle = null THEN <<>>
    ELSE [i \in 1..Len(puzzle[1].groups) |-> SolvedGroupOf(puzzle[1].groups[i])]

\* Mutant: the board shows the player's groups after a loss too.
boardRows_SolvedOnly == IF revealMode THEN solved \o revealedGroups ELSE solved

boardRows ==
    IF revealMode THEN solved \o revealedGroups
    ELSE IF isGameOver /\ ~didWin THEN finalSolutionRows
    ELSE solved

\* The text copyResults hands to the clipboard.
shareText ==
    buildShareText([date |-> puzzle[1].date, solved |-> solved,
                    mistakesLeft |-> mistakesLeft])

movedOut == FlatWords(revealedGroups) \cup Range(activeRevealWords)

\* Mutant: the words of solved groups stay among the remaining words.
remainingWords_All ==
    IF puzzle = null THEN {} ELSE FlatWords(puzzle[1].groups)

\* The words of the puzzle not in a solved group (remainingWords, as a set).
remainingWords ==
    IF puzzle = null THEN {}
    ELSE FlatWords(puzzle[1].groups) \ FlatWords(solved)

\* puzzle.groups.flatMap((g) => g.words)
PuzzleWords(p) ==
    p.groups[1].words \o p.groups[2].words \o p.groups[3].words
    \o p.groups[4].words

\* Mutant: only the words not yet solved are shuffled.
Board_ShuffleRemaining(p, sd) ==
    IF p = null THEN <<>>
    ELSE seededShuffle(Filter(PuzzleWords(p[1]),
                              Range(PuzzleWords(p[1])) \ FlatWords(solved)),
                       seedFromDate(p[1].date) + sd)

\* The body of the allWords memo, for puzzle p and reshuffle counter sd.
Board(p, sd) ==
    IF p = null THEN <<>>
    ELSE seededShuffle(PuzzleWords(p[1]), seedFromDate(p[1].date) + sd)

\* The board order: the 16 words shuffled by the date and the counter.
allWords == Board(puzzle, seed)

\* all.filter((w) => !solvedWords.has(w)), the body of the remainingWords memo.
Remaining(all, sv) == Filter(all, Range(all) \ FlatWords(sv))

\* remainingWords in board order.
remainingWordsInOrder == Remaining(allWords, solved)

\* The words that have a tile in the grid.
gridWords == remainingWords \ movedOut

\* ------------------------------------------------------------ effects

\* The effects that run after a render in which the state became
\* (p, sd, ml, sv, gs, secs), applied in the order the component declares
\* them: stats recording, debrief on a win, reveal start, played flag,
\* persist.  dbo is debriefOpen as the handler left it.
Effects(p, sd, ml, sv, gs, secs, dbo) ==
    LET over == IsGameOver(ml, sv)
        date == p[1].date
        pChanged == p # puzzle
        recDeps == \/ pChanged \/ over # isGameOver \/ ml # mistakesLeft
                   \/ Len(sv) # Len(solved) \/ secs # secondsElapsed
        ls1 == IF recDeps THEN RecordStats(localStorage, p, ml, sv, secs)
               ELSE localStorage
        winDeps == pChanged \/ over # isGameOver \/ DidWin(sv) # didWin
        openOnWin == /\ winDeps /\ p # null /\ over /\ DidWin(sv)
                     /\ ~IsTrue(getItem(ls1, getDebriefDismissKey(date)))
        lossDeps == pChanged \/ IsLoss(ml, sv) # isLoss
        startReveal == /\ lossDeps /\ p # null /\ IsLoss(ml, sv)
                       /\ ~IsTrue(getItem(ls1, RevealDoneKey(date)))
        ls2 == IF startReveal THEN setItem(ls1, RevealDoneKey(date), "true") ELSE ls1
        ls3 == IF p # null /\ over
               THEN setItem(ls2, getPlayedKeyForDate(date), "true") ELSE ls2
        ls4 == IF p # null
               THEN setItem(ls3, getStateKeyForDate(date),
                            [seed |-> sd, mistakesLeft |-> ml,
                             solved |-> sv, guessedSets |-> gs])
               ELSE ls3
    IN  /\ localStorage' = ls4
        /\ debriefOpen' = IF startReveal THEN FALSE
                          ELSE IF openOnWin THEN TRUE ELSE dbo
        /\ revealMode' = IF startReveal THEN TRUE ELSE revealMode
        /\ revealGroupIndex' = IF startReveal THEN 0 ELSE revealGroupIndex
        /\ revealStepInGroup' = IF startReveal THEN 0 ELSE revealStepInGroup
        /\ revealedGroups' = IF startReveal THEN <<>> ELSE revealedGroups

\* ----------------------------------------------------------- handlers

\* Mutant: a click on a selected word drops the whole selection.
Toggled_DropsAll(prev, word) ==
    IF word \in Range(prev) THEN <<>>
    ELSE IF Len(prev) >= 4 THEN prev
    ELSE Append(prev, word)

\* The updater toggleWord hands to setSelected.
Toggled(prev, word) ==
    IF word \in Range(prev) THEN Filter(prev, Range(prev) \ {word})
    ELSE IF Len(prev) >= 4 THEN prev
    ELSE Append(prev, word)

toggleWord(word) ==
    IF lockedOut \/ isGameOver THEN UNCHANGED vars
    ELSE /\ message' = ""
         /\ selected' = Toggled(selected, word)
         /\ UNCHANGED <<puzzle, loading, seed, mistakesLeft, solved, lockedOut,
                        guessedSets, secondsElapsed, debriefOpen, reveal,
                        localStorage, today, args, result, loadEffect, submitted>>

\* Mutant: the first group of the puzzle is taken for the matched one.
FindMatch_FirstGroup(groups, picked) ==
    LET hits == {i \in 1..Len(groups) : normalizeSet(groups[i].words) = picked}
    IN  IF hits = {} THEN null ELSE <<groups[1]>>

\* puzzle.groups.find((g) => normalizeSet(g.words) === picked)
FindMatch(groups, picked) ==
    LET hits == {i \in 1..Len(groups) : normalizeSet(groups[i].words) = picked}
    IN  IF hits = {} THEN null
        ELSE <<groups[CHOOSE i \in hits : \A j \in hits : i <= j]>>

\* selected.filter((w) => set.has(w)).length
Overlap(sel, g) == Len(Filter(sel, Range(g.words)))

\* puzzle.groups.some(overlap === 3)
OneAway(groups, sel) == \E i \in 1..Len(groups) : Overlap(sel, groups[i]) = 3

submit ==
    /\ submitted' = IF puzzle # null /\ Len(selected) = 4
                    THEN submitted \cup {<<puzzle[1].date, Range(selected)>>}
                    ELSE submitted
    /\ IF puzzle = null \/ lockedOut \/ isGameOver
       THEN UNCHANGED <<puzzle, loading, seed, selected, mistakesLeft, solved,
                        message, lockedOut, guessedSets, secondsElapsed,
                        debriefOpen, reveal, localStorage, today, args, result, loadEffect>>
       ELSE IF Len(selected) # 4
       THEN /\ message' = "Select 4 words."
            /\ UNCHANGED <<puzzle, loading, seed, selected, mistakesLeft, solved,
                           lockedOut, guessedSets, secondsElapsed, debriefOpen,
                           reveal, localStorage, today, args, result, loadEffect>>
       ELSE LET picked == normalizeSet(selected)
                match == FindMatch(puzzle[1].groups, picked)
                gs == Append(guessedSets, picked)
                sv == Append(solved, SolvedGroupOf(match[1]))
                ml == Max(0, mistakesLeft - 1)
            IN  IF picked \in Range(guessedSets)
                THEN /\ message' = "Already guessed."
                     /\ UNCHANGED <<puzzle, loading, seed, selected, mistakesLeft,
                                    solved, lockedOut, guessedSets, secondsElapsed,
                                    debriefOpen, reveal, localStorage, today, args, result, loadEffect>>
                ELSE IF match # null
                THEN /\ guessedSets' = gs
                     /\ solved' = sv
                     /\ selected' = <<>>
                     /\ message' = "Correct!"
                     /\ Effects(puzzle, seed, mistakesLeft, sv, gs,
                                secondsElapsed, debriefOpen)
                     /\ UNCHANGED <<puzzle, loading, seed, mistakesLeft, lockedOut,
                                    secondsElapsed, today, args, result, loadEffect>>
                ELSE /\ guessedSets' = gs
                     /\ mistakesLeft' = ml
                     /\ message' = IF OneAway(puzzle[1].groups, selected)
                                   THEN "One away..." ELSE "Nope."
                     /\ Effects(puzzle, seed, ml, solved, gs,
                                secondsElapsed, debriefOpen)
                     /\ UNCHANGED <<puzzle, loading, seed, selected, solved,
                                    lockedOut, secondsElapsed, today, args, result, loadEffect>>

clear ==
    IF lockedOut \/ isGameOver THEN UNCHANGED vars
    ELSE /\ selected' = <<>>
         /\ message' = ""
         /\ UNCHANGED <<puzzle, loading, seed, mistakesLeft, solved, lockedOut,
                        guessedSets, secondsElapsed, debriefOpen, reveal,
                        localStorage, today, args, result, loadEffect, submitted>>

\* Mutant: the reshuffle keeps the selection.
shuffleNow_KeepsSelection ==
    IF lockedOut \/ isGameOver \/ puzzle = null THEN UNCHANGED vars
    ELSE /\ message' = ""
         /\ seed' = seed + 1
         /\ Effects(puzzle, seed + 1, mistakesLeft, solved, guessedSets,
                    secondsElapsed, debriefOpen)
         /\ UNCHANGED <<puzzle, loading, selected, mistakesLeft, solved, lockedOut,
                        guessedSets, secondsElapsed, today, args, result, loadEffect, submitted>>

shuffleNow ==
    IF lockedOut \/ isGameOver \/ puzzle = null THEN UNCHANGED vars
    ELSE /\ selected' = <<>>
         /\ message' = ""
         /\ seed' = seed + 1
         /\ Effects(puzzle, seed + 1, mistakesLeft, solved, guessedSets,
                    secondsElapsed, debriefOpen)
         /\ UNCHANGED <<puzzle, loading, mistakesLeft, solved, lockedOut,
                        guessedSets, secondsElapsed, today, args, result, loadEffect, submitted>>

\* ------------------------------------------------------------- timers

\* Mutant: the timeout of a complete row starts the row again.
RevealTimer_RowAgain ==
    /\ puzzle # null
    /\ revealMode
    /\ IF revealGroupIndex >= Len(groupsToReveal)
       THEN /\ revealMode' = FALSE
            /\ debriefOpen' = TRUE
            /\ UNCHANGED <<revealGroupIndex, revealStepInGroup, revealedGroups>>
       ELSE IF revealStepInGroup < 4
       THEN /\ revealStepInGroup' = revealStepInGroup + 1
            /\ UNCHANGED <<revealMode, debriefOpen, revealGroupIndex, revealedGroups>>
       ELSE /\ revealStepInGroup' = 0
            /\ UNCHANGED <<revealMode, debriefOpen, revealGroupIndex, revealedGroups>>
    /\ UNCHANGED <<puzzle, loading, seed, selected, mistakesLeft, solved, message,
                   lockedOut, guessedSets, secondsElapsed, localStorage, today, args, result, loadEffect,
                   submitted>>

\* The timeout the reveal step effect has pending fires.
RevealTimer ==
    /\ puzzle # null
    /\ revealMode
    /\ IF revealGroupIndex >= Len(groupsToReveal)
       THEN /\ revealMode' = FALSE
            /\ debriefOpen' = TRUE
            /\ UNCHANGED <<revealGroupIndex, revealStepInGroup, revealedGroups>>
       ELSE IF revealStepInGroup < 4
       THEN /\ revealStepInGroup' = revealStepInGroup + 1
            /\ UNCHANGED <<revealMode, debriefOpen, revealGroupIndex, revealedGroups>>
       ELSE /\ revealedGroups' =
                Append(revealedGroups,
                       SolvedGroupOf(groupsToReveal[revealGroupIndex + 1]))
            /\ revealGroupIndex' = revealGroupIndex + 1
            /\ revealStepInGroup' = 0
            /\ UNCHANGED <<revealMode, debriefOpen>>
    /\ UNCHANGED <<puzzle, loading, seed, selected, mistakesLeft, solved, message,
                   lockedOut, guessedSets, secondsElapsed, localStorage, today, args, result, loadEffect,
                   submitted>>

\* The elapsed-seconds timer shows one more second.
Tick ==
    /\ puzzle # null
    /\ secondsElapsed' = secondsElapsed + 1
    /\ Effects(puzzle, seed, mistakesLeft, solved, guessedSets,
               secondsElapsed + 1, debriefOpen)
    /\ UNCHANGED <<puzzle, loading, seed, selected, mistakesLeft, solved, message,
                   lockedOut, guessedSets, today, args, result, loadEffect, submitted>>

\* --------------------------------------------------------- page load

\* The page is (re)loaded: the component mounts with its initial state and
\* the load effect starts the fetch.
Reload ==
    /\ puzzle' = null
    /\ loading' = TRUE
    /\ seed' = 0
    /\ selected' = <<>>
    /\ mistakesLeft' = 4
    /\ solved' = <<>>
    /\ message' = ""
    /\ lockedOut' = FALSE
    /\ guessedSets' = <<>>
    /\ secondsElapsed' = 0
    /\ debriefOpen' = FALSE
    /\ revealMode' = FALSE
    /\ revealGroupIndex' = 0
    /\ revealStepInGroup' = 0
    /\ revealedGroups' = <<>>
    /\ localStorage' = getOrCreateDeviceId(localStorage)
    /\ loadEffect' = "fetching"
    /\ UNCHANGED <<today, args, result, submitted>>

\* A stored text that is not the JSON of a record is [text |-> t, prefix |-> r]:
\* "cut" is the JSON of r cut off before its end, "null" and "5" are the
\* JSON of null and of a number, "" is the empty string.  Any other stored
\* value is a record and stands for its own JSON text.
IsRecordText(v) == "text" \notin DOMAIN v

\* Mutant: a parser that accepts a text cut off before its end and returns
\* what it has read.
JSONParse_Lenient(v) ==
    IF IsRecordText(v) THEN [threw |-> FALSE, kind |-> "object", value |-> v]
    ELSE IF v.text = "null" THEN [threw |-> FALSE, kind |-> "null", value |-> v]
    ELSE IF v.text = "5" THEN [threw |-> FALSE, kind |-> "number", value |-> v]
    ELSE IF v.text = "cut"
    THEN [threw |-> FALSE, kind |-> "object", value |-> v.prefix]
    ELSE [threw |-> TRUE, kind |-> "", value |-> v]

\* JSON.parse(text): the value, or a SyntaxError thrown.
JSONParse(v) ==
    IF IsRecordText(v) THEN [threw |-> FALSE, kind |-> "object", value |-> v]
    ELSE IF v.text = "null" THEN [threw |-> FALSE, kind |-> "null", value |-> v]
    ELSE IF v.text = "5" THEN [threw |-> FALSE, kind |-> "number", value |-> v]
    ELSE [threw |-> TRUE, kind |-> "", value |-> v]

\* The session of the useState defaults.
DefaultSession ==
    [seed |-> 0, mistakesLeft |-> 4, solved |-> <<>>, guessedSets |-> <<>>]

\* Mutant: guessedSets is not restored.
Restored_NoGuessedSets(saved) ==
    IF saved = null
    THEN [seed |-> 0, mistakesLeft |-> 4, solved |-> <<>>, guessedSets |-> <<>>]
    ELSE [seed |-> saved[1].seed, mistakesLeft |-> saved[1].mistakesLeft,
          solved |-> saved[1].solved, guessedSets |-> <<>>]

\* Mutant: mistakesLeft is not restored.
Restored_FreshMistakes(saved) ==
    IF saved = null
    THEN [seed |-> 0, mistakesLeft |-> 4, solved |-> <<>>, guessedSets |-> <<>>]
    ELSE [seed |-> saved[1].seed, mistakesLeft |-> 4,
          solved |-> saved[1].solved, guessedSets |-> saved[1].guessedSets]

\* Mutant: the solved groups are not restored.
Restored_NoSolved(saved) ==
    IF saved = null
    THEN [seed |-> 0, mistakesLeft |-> 4, solved |-> <<>>, guessedSets |-> <<>>]
    ELSE [seed |-> saved[1].seed, mistakesLeft |-> saved[1].mistakesLeft,
          solved |-> <<>>, guessedSets |-> saved[1].guessedSets]

\* Mutant: the reshuffle counter is not restored.
Restored_NoSeed(saved) ==
    IF saved = null
    THEN [seed |-> 0, mistakesLeft |-> 4, solved |-> <<>>, guessedSets |-> <<>>]
    ELSE [seed |-> 0, mistakesLeft |-> saved[1].mistakesLeft,
          solved |-> saved[1].solved, guessedSets |-> saved[1].guessedSets]

\* What the load effect sets from the saved record: parsed.x ?? default for
\* each field, or nothing at all when there is no record.
Restored(saved) ==
    IF saved = null THEN DefaultSession
    ELSE IF ~IsRecordText(saved[1]) /\ saved[1].text = ""
    THEN DefaultSession                    \* if (saved): "" is falsy
    ELSE LET parsed == JSONParse(saved[1])
         IN  IF parsed.threw THEN DefaultSession        \* catch {}
             ELSE IF parsed.kind = "null"
             THEN DefaultSession           \* parsed.seed throws, catch {}
             ELSE IF parsed.kind = "number"
             THEN DefaultSession           \* every field undefined ?? default
             ELSE [seed |-> parsed.value.seed,
                   mistakesLeft |-> parsed.value.mistakesLeft,
                   solved |-> parsed.value.solved,
                   guessedSets |-> parsed.value.guessedSets]

\* The fetch of the load effect resolves with a puzzle.
LoadDone ==
    /\ loadEffect = "fetching"
    /\ loading
    /\ puzzle = null
    /\ LET p == GET(PUZZLES, today)
           r == Restored(getItem(localStorage, getStateKeyForDate(p.date)))
       IN  /\ puzzle' = <<p>>
           /\ seed' = r.seed
           /\ mistakesLeft' = r.mistakesLeft
           /\ solved' = r.solved
           /\ guessedSets' = r.guessedSets
           /\ loading' = FALSE
           /\ lockedOut' = IsTrue(getItem(localStorage, getPlayedKeyForDate(p.date)))
           /\ secondsElapsed' = 0
           /\ Effects(<<p>>, r.seed, r.mistakesLeft, r.solved, r.guessedSets,
                      0, debriefOpen)
    /\ loadEffect' = "done"
    /\ UNCHANGED <<selected, message, today, args, result, submitted>>

\* The fetch of the load effect rejects (or res.json() does), or resolves
\* with a body that carries no puzzle: setPuzzle(undefined), then reading
\* data.puzzle.date throws.  Either way the async function ends there, before
\* setLoading(false), and nothing catches it.
LoadFail ==
    /\ loadEffect = "fetching"
    /\ loading
    /\ puzzle = null
    /\ \E how \in {"rejected", "no puzzle"} : loadEffect' = how
    /\ puzzle' = null
    /\ UNCHANGED <<loading, seed, selected, mistakesLeft, solved, message,
                   lockedOut, guessedSets, secondsElapsed, debriefOpen, reveal,
                   localStorage, today, args, result, submitted>>

\* ------------------------------------------------------ specification

\* Bound: the seconds the model lets the timer count.
MaxSeconds == 1

\* a is a prefix of b
IsPrefix(a, b) == Len(a) <= Len(b) /\ SubSeq(b, 1, Len(a)) = a

\* The selections the modelled player builds, each a prefix of a pick.
\* Corrects: one click order per group, and a second one for the first group
\* (reached from the first by deselecting KIWI in the middle).
CorrectPicks ==
    { <<PEAR, KIWI, APPLE, PLUM>>,
      <<PEAR, APPLE, PLUM, KIWI>>,
      <<STEP, TWIST, SLIDE, WAVE>>,
      <<TREE, STACK, QUEUE, HEAP>>,
      <<KNOT, KNIGHT, KNIFE, KNEE>> }

\* Wrongs, tried in this order: a one-away, then three that are not.  The
\* last two leave the first and the last group free to be solved before.
WrongPicks ==
    << <<APPLE, PEAR, PLUM, STACK>>,
       <<APPLE, TWIST, QUEUE, KNEE>>,
       <<TWIST, SLIDE, KNIFE, KNEE>>,
       <<STEP, WAVE, HEAP, TREE>> >>

\* The first wrong in another click order.
ReorderedPick == <<STACK, PLUM, APPLE, PEAR>>

Picks ==
    CorrectPicks \cup {ReorderedPick}
    \cup {WrongPicks[i] : i \in 1..(IF mistakesLeft = 0 THEN 4 ELSE 5 - mistakesLeft)}

InPicks(sel) == \E pk \in Picks : IsPrefix(sel, pk)

Click ==
    \E word \in gridWords :
        /\ lockedOut \/ isGameOver \/ InPicks(Toggled(selected, word))
        /\ toggleWord(word)

Shuffle ==
    /\ lockedOut \/ isGameOver \/ puzzle = null \/ seed < MaxSeed
    /\ shuffleNow

Second ==
    /\ secondsElapsed < MaxSeconds
    /\ Tick

Init ==
    /\ puzzle = null
    /\ loading = TRUE
    /\ seed = 0
    /\ selected = <<>>
    /\ mistakesLeft = 4
    /\ solved = <<>>
    /\ message = ""
    /\ lockedOut = FALSE
    /\ guessedSets = <<>>
    /\ secondsElapsed = 0
    /\ debriefOpen = FALSE
    /\ revealMode = FALSE
    /\ revealGroupIndex = 0
    /\ revealStepInGroup = 0
    /\ revealedGroups = <<>>
    /\ localStorage = getOrCreateDeviceId([k \in {} |-> ""])
    /\ today = PUZZLES[1].date
    /\ loadEffect = "fetching"
    /\ args = null
    /\ result = null
    /\ submitted = {}

Next ==
    \/ Click
    \/ submit
    \/ clear
    \/ Shuffle
    \/ RevealTimer
    \/ Second
    \/ Reload
    \/ LoadDone
    \/ LoadFail

Spec == Init /\ [][Next]_vars

\* ------------------------------------- specification: one submit, any puzzle

\* The repository's groups with the words of each group in reverse order.
ReversedGroups ==
    [i \in 1..Len(GROUPS) |->
        [GROUPS[i] EXCEPT !.words = <<@[4], @[3], @[2], @[1]>>]]

\* Sixteen distinct words, two of which contain "|": "A|B", "C", "D", "E" /
\* "A", "B|C", "F", "G" / "H", "I", "J", "K" / "L", "M", "N", "O".
BarGroups ==
    << [id |-> "y1", title |-> "FIRST", color |-> "yellow",
        words |-> << <<65, SEP, 66>>, <<67>>, <<68>>, <<69>> >>],
       [id |-> "g1", title |-> "SECOND", color |-> "green",
        words |-> << <<65>>, <<66, SEP, 67>>, <<70>>, <<71>> >>],
       [id |-> "b1", title |-> "THIRD", color |-> "blue",
        words |-> << <<72>>, <<73>>, <<74>>, <<75>> >>],
       [id |-> "p1", title |-> "FOURTH", color |-> "purple",
        words |-> << <<76>>, <<77>>, <<78>>, <<79>> >>] >>

\* The puzzles the route hands to the page in this specification.
EvalPuzzles ==
    { [date |-> PUZZLES[1].date, groups |-> GROUPS],
      [date |-> PUZZLES[1].date, groups |-> ReversedGroups],
      [date |-> PUZZLES[1].date, groups |-> BarGroups] }

\* The tiles the modelled player clicks: the first two groups and the first
\* word of the third.
EvalWords ==
    Range(puzzle[1].groups[1].words) \cup Range(puzzle[1].groups[2].words)
    \cup {puzzle[1].groups[3].words[1]}

\* The page right after its load effect, on a browser with nothing stored.
InitEval ==
    /\ puzzle \in {<<p>> : p \in EvalPuzzles}
    /\ loading = FALSE
    /\ seed = 0
    /\ selected = <<>>
    /\ mistakesLeft = 4
    /\ solved = <<>>
    /\ message = ""
    /\ lockedOut = FALSE
    /\ guessedSets = <<>>
    /\ secondsElapsed = 0
    /\ debriefOpen = FALSE
    /\ revealMode = FALSE
    /\ revealGroupIndex = 0
    /\ revealStepInGroup = 0
    /\ revealedGroups = <<>>
    /\ localStorage =
          setItem(getOrCreateDeviceId([k \in {} |-> ""]),
                  getStateKeyForDate(puzzle[1].date),
                  [seed |-> 0, mistakesLeft |-> 4, solved |-> <<>>,
                   guessedSets |-> <<>>])
    /\ today = puzzle[1].date
    /\ loadEffect = "done"
    /\ args = null
    /\ result = null
    /\ submitted = {}

\* A click on a tile, before the first accepted submit.
ClickEval ==
    \E word \in gridWords \cap EvalWords :
        /\ guessedSets = <<>>
        /\ toggleWord(word)

NextEval ==
    \/ ClickEval
    \/ submit

SpecEval == InitEval /\ [][NextEval]_vars

\* ------------------------------------------ specification: several dates

\* The calendar days the page is opened on: the puzzle dates and a day the
\* list has no puzzle for.
Days == {PUZZLES[i].date : i \in 1..Len(PUZZLES)} \cup {<<2026, 1, 2>>}

\* Every game begun on this browser has been finished.
NoGameOpen ==
    \A i \in 1..Len(PUZZLES) :
        LET saved == getItem(localStorage, getStateKeyForDate(PUZZLES[i].date))
        IN  saved # null => IsGameOver(saved[1].mistakesLeft, saved[1].solved)

\* The calendar moves on to a later day.  The page reads the date only through
\* the fetch of its load effect, so the change is taken while a load is under
\* way.
NextDay ==
    /\ loading
    /\ puzzle = null
    /\ NoGameOpen
    /\ \E d \in Days :
          /\ DaysFromCivil(d[1], d[2], d[3])
                > DaysFromCivil(today[1], today[2], today[3])
          /\ today' = d
    /\ UNCHANGED <<puzzle, loading, seed, selected, mistakesLeft, solved, message,
                   lockedOut, guessedSets, secondsElapsed, debriefOpen, reveal,
                   localStorage, loadEffect, args, result, submitted>>

\* The groups in the order the modelled player solves them.
SolveOrder ==
    << <<PEAR, KIWI, APPLE, PLUM>>,
       <<STEP, TWIST, SLIDE, WAVE>>,
       <<TREE, STACK, QUEUE, HEAP>>,
       <<KNOT, KNIGHT, KNIFE, KNEE>> >>

\* The modelled player of a day either solves the groups in order without a
\* mistake or submits the four wrongs in order without solving a group.
DayPicks ==
    (IF mistakesLeft = 4 /\ Len(solved) < 4
     THEN {SolveOrder[Len(solved) + 1]} ELSE {})
    \cup
    (IF solved = <<>> /\ mistakesLeft > 0
     THEN {WrongPicks[5 - mistakesLeft]} ELSE {})

ClickDay ==
    \E word \in gridWords :
        /\ \/ lockedOut
           \/ isGameOver
           \/ \E pk \in DayPicks : IsPrefix(Toggled(selected, word), pk)
        /\ toggleWord(word)

NextDays ==
    \/ ClickDay
    \/ submit
    \/ RevealTimer
    \/ Second
    \/ Reload
    \/ LoadDone
    \/ NextDay

SpecDays == Init /\ [][NextDays]_vars

\* -------------------------------------- specification: calls of seededShuffle

\* Bounds: the longest array of the small inputs, the largest reshuffle
\* counter of the board inputs.
MaxLen == 3
MaxCounter == 8

\* The arrays of up to MaxLen elements over three values, repeats included.
SmallArrays == UNION {[1..n -> {"a", "b", "c"}] : n \in 0..MaxLen}

\* Every sequence of draws the loop can see for an array of n elements: the
\* k-th draw, for i = n - k, is Math.floor(rnd() * (i + 1)) with rnd() in
\* [0, 1), a number of 0..i.
AllDraws(n) ==
    {js \in [1..(IF n > 0 THEN n - 1 ELSE 0) -> 0..(IF n > 0 THEN n - 1 ELSE 0)] :
        \A k \in DOMAIN js : js[k] <= n - k}

\* The calls: a small array with any draws, or the words of a puzzle with
\* the draws of mulberry32 for the date and a reshuffle counter.
ShuffleArgs ==
    UNION {{[arr |-> a, js |-> js] : js \in AllDraws(Len(a))} : a \in SmallArrays}
    \cup
    {[arr |-> PuzzleWords(PUZZLES[i]),
      js |-> DrawsFrom(Word(seedFromDate(PUZZLES[i].date) + c), 15)] :
        i \in 1..Len(PUZZLES), c \in 0..MaxCounter}

InitShuffle ==
    /\ puzzle = null
    /\ loading = TRUE
    /\ seed = 0
    /\ selected = <<>>
    /\ mistakesLeft = 4
    /\ solved = <<>>
    /\ message = ""
    /\ lockedOut = FALSE
    /\ guessedSets = <<>>
    /\ secondsElapsed = 0
    /\ debriefOpen = FALSE
    /\ revealMode = FALSE
    /\ revealGroupIndex = 0
    /\ revealStepInGroup = 0
    /\ revealedGroups = <<>>
    /\ localStorage = getOrCreateDeviceId([k \in {} |-> ""])
    /\ today = PUZZLES[1].date
    /\ loadEffect = "fetching"
    /\ args \in {<<x>> : x \in ShuffleArgs}
    /\ result = null
    /\ submitted = {}

\* The call returns.
ShuffleCall ==
    /\ args # null
    /\ result = null
    /\ result' = <<ShuffleRun(args[1].arr, args[1].js)>>
    /\ UNCHANGED <<puzzle, loading, seed, selected, mistakesLeft, solved, message,
                   lockedOut, guessedSets, secondsElapsed, debriefOpen, reveal,
                   localStorage, today, loadEffect, args, submitted>>

NextShuffle == ShuffleCall

SpecShuffle == InitShuffle /\ [][NextShuffle]_vars

\* ------------------------------------------- specification: calls of GET

\* The puzzle lists: the entries of PUZZLES, some or all, in any order.
PuzzleLists ==
    UNION {{ps \in [1..n -> Range(PUZZLES)] :
               \A i, j \in 1..n : i # j => ps[i] # ps[j]} : n \in 1..Len(PUZZLES)}

InitRoute ==
    /\ puzzle = null
    /\ loading = TRUE
    /\ seed = 0
    /\ selected = <<>>
    /\ mistakesLeft = 4
    /\ solved = <<>>
    /\ message = ""
    /\ lockedOut = FALSE
    /\ guessedSets = <<>>
    /\ secondsElapsed = 0
    /\ debriefOpen = FALSE
    /\ revealMode = FALSE
    /\ revealGroupIndex = 0
    /\ revealStepInGroup = 0
    /\ revealedGroups = <<>>
    /\ localStorage = getOrCreateDeviceId([k \in {} |-> ""])
    /\ today \in Days
    /\ loadEffect = "fetching"
    /\ args \in {<<ps>> : ps \in PuzzleLists}
    /\ result = null
    /\ submitted = {}

\* The route answers a request on the day today.
GETCall ==
    /\ args # null
    /\ result = null
    /\ result' = <<GET(args[1], today)>>
    /\ UNCHANGED <<puzzle, loading, seed, selected, mistakesLeft, solved, message,
                   lockedOut, guessedSets, secondsElapsed, debriefOpen, reveal,
                   localStorage, today, loadEffect, args, submitted>>

NextRoute == GETCall

SpecRoute == InitRoute /\ [][NextRoute]_vars

\* ------------------------------- specification: recordings of finished games

\* Bound: the number of games recorded.
MaxRecordings == 4

\* The finished games recorded: a win with no or with three mistakes, a loss
\* with no or with two groups solved.
Outcomes ==
    {[mistakesLeft |-> 4, solved |-> [i \in 1..4 |-> SolvedGroupOf(GROUPS[i])]],
     [mistakesLeft |-> 1, solved |-> [i \in 1..4 |-> SolvedGroupOf(GROUPS[5 - i])]],
     [mistakesLeft |-> 0, solved |-> <<>>],
     [mistakesLeft |-> 0, solved |-> [i \in 1..2 |-> SolvedGroupOf(GROUPS[i])]]}

InitStats ==
    /\ puzzle = null
    /\ loading = TRUE
    /\ seed = 0
    /\ selected = <<>>
    /\ mistakesLeft = 4
    /\ solved = <<>>
    /\ message = ""
    /\ lockedOut = FALSE
    /\ guessedSets = <<>>
    /\ secondsElapsed = 0
    /\ debriefOpen = FALSE
    /\ revealMode = FALSE
    /\ revealGroupIndex = 0
    /\ revealStepInGroup = 0
    /\ revealedGroups = <<>>
    /\ localStorage = getOrCreateDeviceId([k \in {} |-> ""])
    /\ today = PUZZLES[1].date
    /\ loadEffect = "fetching"
    /\ args = null
    /\ result = <<loadStats(localStorage)>>
    /\ submitted = {}

\* The effect records a finished game of some date: args is the game, result
\* the record it leaves.
RecordCall ==
    /\ result[1].totalPlayed < MaxRecordings
    /\ \E d \in Days, o \in Outcomes :
          /\ args' = <<[date |-> d, mistakesLeft |-> o.mistakesLeft,
                        solved |-> o.solved]>>
          /\ result' = <<NextStats(result[1], d, o.mistakesLeft, o.solved, 0)>>
    /\ UNCHANGED <<puzzle, loading, seed, selected, mistakesLeft, solved, message,
                   lockedOut, guessedSets, secondsElapsed, debriefOpen, reveal,
                   localStorage, today, loadEffect, submitted>>

NextRecordings == RecordCall

SpecStats == InitStats /\ [][NextRecordings]_vars

\* ----------------------------------- specification: a damaged saved record

\* The texts that are not the JSON of a record, for a key that holds v.
Malformed(v) ==
    { [text |-> t, prefix |-> IF IsRecordText(v) THEN v ELSE v.prefix] :
        t \in {"cut", "null", "5", ""} }

\* Something else than the page (another script of the origin, the user in
\* the developer tools, a write cut short) replaces the saved session of
\* today's puzzle by a text that is not the JSON of a record.  The page reads
\* the record only in its load effect, so the change is taken while a load
\* is under way.
Tamper ==
    /\ loadEffect = "fetching"
    /\ puzzle = null
    /\ LET key == getStateKeyForDate(GET(PUZZLES, today).date)
       IN  /\ getItem(localStorage, key) # null
           /\ \E v \in Malformed(getItem(localStorage, key)[1]) :
                  localStorage' = setItem(localStorage, key, v)
    /\ UNCHANGED <<puzzle, loading, seed, selected, mistakesLeft, solved, message,
                   lockedOut, guessedSets, secondsElapsed, debriefOpen, reveal,
                   today, args, result, loadEffect, submitted>>

NextTamper ==
    \/ ClickDay
    \/ submit
    \/ RevealTimer
    \/ Reload
    \/ LoadDone
    \/ Tamper

SpecTamper == Init /\ [][NextTamper]_vars

\* ------------------------- specification: one visit, timers that keep firing

\* The page is loaded once and not reloaded; a pending timeout of the reveal
\* fires in the end (setTimeout), whatever else happens meanwhile.
NextVisit ==
    \/ Click
    \/ submit
    \/ RevealTimer
    \/ Second
    \/ LoadDone

SpecVisit == Init /\ [][NextVisit]_vars /\ WF_vars(RevealTimer)

\* ------------------------------- specification: play and reloads, no clock

\* The handlers, the reveal and the reloads of Spec, without the seconds
\* timer and without failing loads.
NextPlay ==
    \/ Click
    \/ submit
    \/ clear
    \/ Shuffle
    \/ RevealTimer
    \/ Reload
    \/ LoadDone

SpecPlay == Init /\ [][NextPlay]_vars

\* ------------------------------------------------------------- claims

Dates == {PUZZLES[i].date : i \in 1..Len(PUZZLES)}

\* The saved session record of a date: null or <<record>>.
SavedOf(ls, d) == getItem(ls, getStateKeyForDate(d))

\* b is a, or a with one element appended.
AppendedOrSame(a, b) ==
    \/ b = a
    \/ Len(b) = Len(a) + 1 /\ SubSeq(b, 1, Len(a)) = a

\* The game of (ml, sv) is over, in the words of the claims.
Finished(ml, sv) == ml = 0 \/ Len(sv) = 4

\* The distinct word sets handed to submit for the loaded puzzle's date.
SubmittedSets == {s[2] : s \in {t \in submitted : t[1] = puzzle[1].date}}

\* C1: while no submit has matched a group, mistakesLeft = max(0, 4 - n), n the
\* number of distinct 4-word sets submitted (whatever the click order), and
\* mistakesLeft is never negative.
C1_MistakesCountDistinctSets ==
    /\ mistakesLeft >= 0
    /\ (puzzle # null /\ solved = <<>>) =>
          LET n == Cardinality(SubmittedSets)
          IN  mistakesLeft = IF 4 - n >= 0 THEN 4 - n ELSE 0

\* C1 witness: four distinct wrong sets were submitted, one of them twice in
\* two click orders, and the game is lost with nothing solved.
C1_Witness ==
    /\ puzzle # null /\ solved = <<>> /\ mistakesLeft = 0
    /\ Cardinality(SubmittedSets) = 4
    /\ message = "Nope."

\* The selection is a 4-word set that was submitted before for this date.
IsResubmission ==
    /\ puzzle # null
    /\ Len(selected) = 4
    /\ Range(selected) \in SubmittedSets

\* C2: a submit of a 4-word set already submitted for the date, in any click
\* order and across reloads, leaves mistakesLeft, solved and guessedSets
\* unchanged, and the running game answers it with "Already guessed."
C2_ResubmitRejected ==
    [][ (submit /\ IsResubmission) =>
          /\ UNCHANGED <<mistakesLeft, solved, guessedSets>>
          /\ (~lockedOut /\ ~Finished(mistakesLeft, solved))
                => message' = "Already guessed." ]_vars

\* C2 witness: the first wrong set was submitted again in another click order
\* and was answered "Already guessed."
C2_Witness ==
    /\ message = "Already guessed."
    /\ selected = ReorderedPick
    /\ normalizeSet(WrongPicks[1]) \in Range(guessedSets)
    /\ mistakesLeft = 3

\* C3: in every step mistakesLeft does not increase and solved changes only by
\* one group appended, in the page and in the saved record of every date, and
\* a load restores exactly what was saved.
C3_MistakesFallSolvedGrows ==
    [][ /\ (puzzle # null /\ puzzle' # null) =>
              /\ puzzle'[1].date = puzzle[1].date
              /\ mistakesLeft' <= mistakesLeft
              /\ AppendedOrSame(solved, solved')
        /\ \A d \in Dates :
              SavedOf(localStorage, d) # null =>
                 /\ SavedOf(localStorage', d) # null
                 /\ SavedOf(localStorage', d)[1].mistakesLeft
                       <= SavedOf(localStorage, d)[1].mistakesLeft
                 /\ AppendedOrSame(SavedOf(localStorage, d)[1].solved,
                                   SavedOf(localStorage', d)[1].solved)
        /\ (puzzle = null /\ puzzle' # null
              /\ SavedOf(localStorage, puzzle'[1].date) # null) =>
              /\ mistakesLeft' <= SavedOf(localStorage, puzzle'[1].date)[1].mistakesLeft
              /\ AppendedOrSame(SavedOf(localStorage, puzzle'[1].date)[1].solved,
                                solved')
        /\ puzzle' # null =>
              /\ SavedOf(localStorage', puzzle'[1].date) # null
              /\ SavedOf(localStorage', puzzle'[1].date)[1].mistakesLeft = mistakesLeft'
              /\ SavedOf(localStorage', puzzle'[1].date)[1].solved = solved'
      ]_vars

\* C3 witness: a lost game with two groups solved, restored by a reload.
C3_Witness ==
    /\ puzzle # null /\ lockedOut
    /\ mistakesLeft = 0 /\ Len(solved) = 2

\* C4: once the game of a date is over, no step in the page changes selected,
\* seed, mistakesLeft, solved or guessedSets, the saved record stays as it is,
\* and every later load restores the finished game.
C4_NoPlayAfterGameOver ==
    [][ /\ (puzzle # null /\ puzzle' # null /\ Finished(mistakesLeft, solved)) =>
              UNCHANGED <<selected, seed, mistakesLeft, solved, guessedSets>>
        /\ \A d \in Dates :
              (/\ SavedOf(localStorage, d) # null
               /\ Finished(SavedOf(localStorage, d)[1].mistakesLeft,
                           SavedOf(localStorage, d)[1].solved)) =>
                 SavedOf(localStorage', d) = SavedOf(localStorage, d)
        /\ (/\ puzzle = null /\ puzzle' # null
            /\ SavedOf(localStorage, puzzle'[1].date) # null
            /\ Finished(SavedOf(localStorage, puzzle'[1].date)[1].mistakesLeft,
                        SavedOf(localStorage, puzzle'[1].date)[1].solved)) =>
              /\ selected' = <<>>
              /\ [seed |-> seed', mistakesLeft |-> mistakesLeft',
                  solved |-> solved', guessedSets |-> guessedSets']
                    = SavedOf(localStorage, puzzle'[1].date)[1]
      ]_vars

\* C4 witness: a won game after a reload, with a second already counted and
\* the reshuffle counter used.
C4_Witness ==
    /\ puzzle # null /\ lockedOut /\ Len(solved) = 4
    /\ seed = MaxSeed /\ secondsElapsed > 0

\* C5: 0 <= mistakesLeft <= 4 and |solved| <= 4; Won iff |solved| = 4; Lost iff
\* mistakesLeft = 0 and |solved| < 4; never both; game over iff exactly one.
C5_WonLostExclusive ==
    /\ mistakesLeft \in 0..4
    /\ Len(solved) <= 4
    /\ didWin <=> Len(solved) = 4
    /\ isLoss <=> (mistakesLeft = 0 /\ Len(solved) < 4)
    /\ ~(didWin /\ isLoss)
    /\ isGameOver <=> ((didWin /\ ~isLoss) \/ (isLoss /\ ~didWin))

\* C5 witness: a game won with its last mistake left.
C5_Witness == puzzle # null /\ didWin /\ mistakesLeft = 1

\* The classification of a word set by set comparison with the groups.
Expected(groups, ws) ==
    IF \E i \in 1..Len(groups) : Range(groups[i].words) = ws THEN "Correct!"
    ELSE IF \E i \in 1..Len(groups) :
               Cardinality(Range(groups[i].words) \cap ws) = 3 THEN "One away..."
    ELSE "Nope."

\* C6: submit answers a selection of 4 distinct words not submitted before
\* "Correct!" iff its word set is the word set of a group (and then appends
\* that group to solved), "One away..." iff it is not and shares exactly 3
\* words with a group, "Nope." otherwise (and then takes one mistake),
\* whatever the click order and the order of the words inside the groups.
C6_SubmitClassifiesBySet ==
    [][ (/\ submit
         /\ puzzle # null /\ ~lockedOut /\ ~isGameOver
         /\ Len(selected) = 4
         /\ Range(selected) \notin SubmittedSets) =>
           LET ws == Range(selected)
               verdict == Expected(puzzle[1].groups, ws)
           IN  /\ message' = verdict
               /\ IF verdict = "Correct!"
                  THEN /\ Len(solved') = Len(solved) + 1
                       /\ Range(solved'[Len(solved')].words) = ws
                       /\ mistakesLeft' = mistakesLeft
                  ELSE /\ solved' = solved
                       /\ mistakesLeft' = mistakesLeft - 1 ]_vars

\* The dates whose saved game is over.
FinishedDates(ls) ==
    {d \in Dates : /\ SavedOf(ls, d) # null
                   /\ Finished(SavedOf(ls, d)[1].mistakesLeft,
                               SavedOf(ls, d)[1].solved)}

\* C7: the stats record changes only in the step in which the game of the
\* loaded date becomes over, and then totalPlayed grows by exactly 1; every
\* other step (a tick after game over, a reload, a load) leaves totalPlayed,
\* totalCompleted, currentStreak, longestStreak and totalMistakesUsed as they
\* are, so totalPlayed counts the dates whose game is over.
C7_StatsRecordedOncePerDate ==
    [][ LET before == loadStats(localStorage)
            after  == loadStats(localStorage')
            newly  == FinishedDates(localStorage') \ FinishedDates(localStorage)
        IN  /\ FinishedDates(localStorage) \subseteq FinishedDates(localStorage')
            /\ after.totalPlayed = Cardinality(FinishedDates(localStorage'))
            /\ IF newly = {}
               THEN /\ after.totalPlayed = before.totalPlayed
                    /\ after.totalCompleted = before.totalCompleted
                    /\ after.currentStreak = before.currentStreak
                    /\ after.longestStreak = before.longestStreak
                    /\ after.totalMistakesUsed = before.totalMistakesUsed
               ELSE /\ puzzle' # null
                    /\ newly = {puzzle'[1].date}
                    /\ after.totalPlayed = before.totalPlayed + 1 ]_vars

\* C7 witness: two dates were played to the end, the page was reloaded on the
\* second one and a second has been counted since.
C7_Witness ==
    /\ puzzle # null /\ lockedOut /\ isGameOver
    /\ secondsElapsed > 0
    /\ Cardinality(FinishedDates(localStorage)) = 2
    /\ loadStats(localStorage).totalPlayed = 2

\* The number of days of month m of year y.
DaysInMonth(y, m) ==
    IF m = 2
    THEN (IF (y % 4 = 0 /\ y % 100 # 0) \/ y % 400 = 0 THEN 29 ELSE 28)
    ELSE IF m \in {4, 6, 9, 11} THEN 30 ELSE 31

\* The calendar day after d.
NextCalendarDay(d) ==
    IF d[3] < DaysInMonth(d[1], d[2]) THEN <<d[1], d[2], d[3] + 1>>
    ELSE IF d[2] < 12 THEN <<d[1], d[2] + 1, 1>>
    ELSE <<d[1] + 1, 1, 1>>

\* The step records the game of date d in the stats.
RecordsDate(d) ==
    /\ ~IsTrue(getItem(localStorage, StatsRecordedKey(d)))
    /\ IsTrue(getItem(localStorage', StatsRecordedKey(d)))

\* C8: when the stats record is written for a game of date D, a win adds 1 to
\* totalCompleted and sets currentStreak to the previous currentStreak + 1 if
\* the previously completed date is the calendar day before D and to 1
\* otherwise; a loss sets currentStreak to 0 and leaves totalCompleted; so a
\* win that follows a loss gives currentStreak = 1.
C8_StreakLogic ==
    [][ (puzzle' # null /\ RecordsDate(puzzle'[1].date)) =>
           LET D      == puzzle'[1].date
               before == loadStats(localStorage)
               after  == loadStats(localStorage')
               consecutive ==
                   /\ before.lastCompletedDate # null
                   /\ NextCalendarDay(before.lastCompletedDate[1]) = D
           IN  IF Len(solved') = 4
               THEN /\ after.totalCompleted = before.totalCompleted + 1
                    /\ after.currentStreak =
                          IF consecutive THEN before.currentStreak + 1 ELSE 1
                    /\ (before.totalPlayed > before.totalCompleted
                          /\ before.currentStreak = 0) => after.currentStreak = 1
               ELSE /\ after.currentStreak = 0
                    /\ after.totalCompleted = before.totalCompleted ]_vars

\* C8 witness: wins on two consecutive dates across the year end, then a win
\* two days later: the streak went to 2 and is 1 again.
C8_Witness ==
    /\ loadStats(localStorage).longestStreak = 2
    /\ loadStats(localStorage).currentStreak = 1
    /\ loadStats(localStorage).lastCompletedDate = << <<2026, 1, 3>> >>

\* C9: when the session is Lost and the reveal is not running, the board rows
\* are the puzzle's four groups in the puzzle's order.
C9_LostBoardIsSolution ==
    (puzzle # null /\ mistakesLeft = 0 /\ Len(solved) < 4 /\ ~revealMode) =>
        /\ Len(boardRows) = 4
        /\ \A i \in 1..4 :
              /\ boardRows[i].id = puzzle[1].groups[i].id
              /\ boardRows[i].color = puzzle[1].groups[i].color
              /\ boardRows[i].title = puzzle[1].groups[i].title
              /\ boardRows[i].words = puzzle[1].groups[i].words

\* C9 witness: the reveal of a lost game has finished; the player had solved
\* the last group and then the first one.
C9_Witness ==
    /\ puzzle # null /\ mistakesLeft = 0 /\ ~revealMode
    /\ Len(solved) = 2 /\ solved[1].id = "p1" /\ solved[2].id = "y1"
    /\ Len(revealedGroups) = 2

\* C10: while the reveal runs, the active row shows the first
\* revealStepInGroup words of the group at position revealGroupIndex among the
\* unsolved groups in puzzle order, never a word of a solved group, and
\* revealedGroups holds the unsolved groups before that position, in order.
C10_RevealShowsUnsolvedGroup ==
    (puzzle # null /\ revealMode) =>
        /\ revealStepInGroup \in 0..4
        /\ revealGroupIndex \in 0..Len(groupsToReveal)
        /\ activeRevealWords =
              IF revealGroupIndex < Len(groupsToReveal)
              THEN SubSeq(groupsToReveal[revealGroupIndex + 1].words,
                          1, revealStepInGroup)
              ELSE <<>>
        /\ Range(activeRevealWords) \cap FlatWords(solved) = {}
        /\ revealedGroups =
              [i \in 1..revealGroupIndex |-> SolvedGroupOf(groupsToReveal[i])]

\* The session of the page as a record.
SessionRecord ==
    [seed |-> seed, mistakesLeft |-> mistakesLeft, solved |-> solved,
     guessedSets |-> guessedSets]

\* C11: a reload hands the session over unchanged: when the page with a
\* puzzle is reloaded, the record stored for the date is the session as it is,
\* the reload leaves the storage alone, and the load that fetches the date
\* sets seed, mistakesLeft, solved and guessedSets to that record and leaves
\* the selection empty.
C11_ReloadRoundTrip ==
    [][ /\ (puzzle # null /\ puzzle' = null) =>
              /\ SavedOf(localStorage, puzzle[1].date) = <<SessionRecord>>
              /\ localStorage' = localStorage
              /\ selected' = <<>>
        /\ (puzzle = null /\ puzzle' # null
              /\ SavedOf(localStorage, puzzle'[1].date) # null) =>
              /\ seed' = SavedOf(localStorage, puzzle'[1].date)[1].seed
              /\ mistakesLeft' = SavedOf(localStorage, puzzle'[1].date)[1].mistakesLeft
              /\ solved' = SavedOf(localStorage, puzzle'[1].date)[1].solved
              /\ guessedSets' = SavedOf(localStorage, puzzle'[1].date)[1].guessedSets
              /\ selected' = <<>>
              /\ SavedOf(localStorage', puzzle'[1].date)
                    = SavedOf(localStorage, puzzle'[1].date) ]_vars

\* C11 witness: a lost game with one group solved and the reshuffle counter
\* used came back from a reload; the four words of the last wrong submit are
\* no longer selected.
C11_Witness ==
    /\ puzzle # null /\ lockedOut
    /\ mistakesLeft = 0 /\ Len(solved) = 1 /\ seed = 1
    /\ Len(guessedSets) = 5
    /\ selected = <<>>

\* C12: once the load effect has ended without a puzzle (the fetch failed or
\* the response carried none), the page has left the loading state and shows
\* the failure: loading = FALSE with no puzzle.
C12_FailedLoadShowsFailure ==
    loadEffect \in {"rejected", "no puzzle"} => (~loading /\ puzzle = null)

\* The stored value is a text that is not the JSON of a record.
Unparseable(saved) == saved # null /\ ~IsRecordText(saved[1])

\* C13: a load that finds a saved session that cannot be parsed, or parses to
\* something that is no object, starts the session as if nothing were saved:
\* seed = 0, mistakesLeft = 4, solved and guessedSets empty, and the page
\* leaves the loading state.
C13_UnparseableRecordIsAbsent ==
    [][ (/\ loadEffect = "fetching" /\ loadEffect' = "done"
         /\ Unparseable(SavedOf(localStorage, GET(PUZZLES, today).date))) =>
           /\ puzzle' = <<GET(PUZZLES, today)>>
           /\ seed' = 0
           /\ mistakesLeft' = 4
           /\ solved' = <<>>
           /\ guessedSets' = <<>>
           /\ ~loading' ]_vars

\* C13 witness: a game lost on this browser was loaded again from a damaged
\* record: the board is locked by the played flag, the session is fresh.
C13_Witness ==
    /\ puzzle # null /\ ~loading /\ lockedOut
    /\ mistakesLeft = 4 /\ solved = <<>> /\ guessedSets = <<>>
    /\ IsTrue(getItem(localStorage, RevealDoneKey(puzzle[1].date)))

\* The keys whose stored value differs between ls and ls2.
KeysChanged(ls, ls2) ==
    {k \in (DOMAIN ls) \cup (DOMAIN ls2) : getItem(ls, k) # getItem(ls2, k)}

\* C14: a step of the page that shows the puzzle dated D writes only keys
\* that carry D, or the stats record; a step without a puzzle writes nothing;
\* so the records and flags of the other dates stay as they are.  A load of a
\* date with no saved session starts from the defaults, whatever is stored
\* for other dates.
C14_RecordsIsolatedPerDate ==
    [][ /\ puzzle' # null =>
              \A k \in KeysChanged(localStorage, localStorage') :
                  k = STATS_KEY \/ k[2] = puzzle'[1].date
        /\ puzzle' = null => KeysChanged(localStorage, localStorage') = {}
        /\ (puzzle = null /\ puzzle' # null
              /\ SavedOf(localStorage, puzzle'[1].date) = null) =>
              /\ seed' = 0 /\ mistakesLeft' = 4
              /\ solved' = <<>> /\ guessedSets' = <<>>
              /\ selected' = <<>> ]_vars

\* C14 witness: the games of two dates are over, and the puzzle of a third
\* date has just been loaded for the first time: a fresh session, not locked.
C14_Witness ==
    /\ puzzle # null /\ ~lockedOut
    /\ puzzle[1].date \notin FinishedDates(localStorage)
    /\ Cardinality(FinishedDates(localStorage)) = 2
    /\ mistakesLeft = 4 /\ solved = <<>> /\ guessedSets = <<>>

\* ------------------------------------------------------------------- C15

\* How many times x occurs in the sequence s.
Count(s, x) == Cardinality({i \in DOMAIN s : s[i] = x})

IsPermutation(r, a) ==
    /\ Len(r) = Len(a)
    /\ \A x \in Range(a) \cup Range(r) : Count(r, x) = Count(a, x)

\* C15: seededShuffle returns a permutation of its input (the same elements
\* with the same multiplicities) for every input and every sequence of
\* generator outputs, it leaves the caller's array as it was, and a board of
\* the 16 distinct words of a puzzle holds each word exactly once.
C15_ShuffleIsPermutation ==
    result # null =>
        LET a == args[1].arr
            r == result[1]
        IN  /\ r.arr = a
            /\ IsPermutation(r.returned, a)
            /\ Len(a) = 16 =>
                   \A i \in 1..4, k \in 1..4 :
                       Count(r.returned, GROUPS[i].words[k]) = 1

\* A board call that moved words, and whose draws are the generator's.
C15_Witness ==
    /\ result # null
    /\ Len(args[1].arr) = 16
    /\ args[1].js = DrawsFrom(Word(seedFromDate(PUZZLES[1].date) + 1), 15)
    /\ result[1].returned # args[1].arr
    /\ result[1].returned = seededShuffle(PuzzleWords(PUZZLES[1]),
                                          seedFromDate(PUZZLES[1].date) + 1)

\* ------------------------------------------------------------------- C16

\* The order a session of date d with reshuffle counter c shows, by the date
\* and the counter alone.
Boards ==
    [d \in Dates, c \in 0..MaxSeed |->
        seededShuffle(PuzzleWords(GET(PUZZLES, d)), seedFromDate(d) + c)]

RECURSIVE SplitLines(_)
SplitLines(text) ==
    IF \A i \in DOMAIN text : text[i] # NL THEN <<text>>
    ELSE LET i == CHOOSE k \in DOMAIN text :
                      text[k] = NL /\ \A h \in 1..(k - 1) : text[h] # NL
         IN  <<SubSeq(text, 1, i - 1)>> \o SplitLines(SubSeq(text, i + 1, Len(text)))

\* C18: in every session state the share text is, line by line: the app
\* name, the date as month/day/year, one row of four squares per solved group
\* in solve order, each in its group's colour (the groups revealed after a
\* loss add no row), and "Mistakes: " with 4 - mistakesLeft; the text of any
\* other date with the same solved groups and mistakesLeft differs in the
\* date line only, so equal (date, solved, mistakesLeft) give equal text.
C18_ShareText ==
    puzzle # null =>
        LET lines == SplitLines(shareText)
            n == Len(solved)
        IN  /\ Len(lines) = n + 3
            /\ lines[1] = <<"B", "a", "y", "l", "o", "r", "d", "l", "e">>
            /\ \A i \in 1..n :
                   /\ Len(lines[2 + i]) = 4
                   /\ \A k \in 1..4 : lines[2 + i][k] = COLOR_EMOJI[solved[i].color]
            /\ lines[n + 3] = <<"M", "i", "s", "t", "a", "k", "e", "s", ":", " ">>
                                 \o Decimal(4 - mistakesLeft)
            /\ \A dt \in Dates :
                   LET other == SplitLines(buildShareText(
                                    [date |-> dt, solved |-> solved,
                                     mistakesLeft |-> mistakesLeft]))
                   IN  /\ other[2] = Decimal(dt[2]) \o <<"/">> \o Decimal(dt[3])
                                        \o <<"/">> \o Decimal(dt[1])
                       /\ dt = puzzle[1].date => other = lines
                       /\ [other EXCEPT ![2] = lines[2]] = lines

\* C18 witness: a lost game with one group solved by the player and the
\* other three revealed: the text has one row, the solved group's.
C18_Witness ==
    /\ puzzle # null /\ mistakesLeft = 0 /\ Len(solved) = 1
    /\ Len(revealedGroups) = 3 /\ ~revealMode
    /\ solved[1].color = "yellow"
    /\ shareText
         = <<"B", "a", "y", "l", "o", "r", "d", "l", "e", NL,
             "1", "2", "/", "1", "8", "/", "2", "0", "2", "5", NL,
             "U+1F7E8", "U+1F7E8", "U+1F7E8", "U+1F7E8", NL,
             "M", "i", "s", "t", "a", "k", "e", "s", ":", " ", "4">>

\* ------------------------------------------------------------------- C17

\* Date a is not after date b.
DateLeq(a, b) == DaysFromCivil(a[1], a[2], a[3]) <= DaysFromCivil(b[1], b[2], b[3])

\* C17: the route returns the puzzle of today's date when the list has one;
\* when it has none, it returns the puzzle of the list with the latest date,
\* whatever the order of the list.
C17_TodayOrLatestPuzzle ==
    result # null =>
        LET ps == args[1]
        IN  IF \E i \in 1..Len(ps) : ps[i].date = today
            THEN result[1].date = today
            ELSE \A i \in 1..Len(ps) : DateLeq(ps[i].date, result[1].date)

\* ------------------------------------------------------------------- C19

\* C19: starting from the empty record, after every recording of a win or a
\* loss on any date longestStreak >= currentStreak, and longestStreak is not
\* less than before the recording; a loss sets currentStreak to 0 and leaves
\* longestStreak as it was.
C19_LongestStreakBounds ==
    [][ /\ result'[1].longestStreak >= result'[1].currentStreak
        /\ result'[1].longestStreak >= result[1].longestStreak
        /\ ~DidWin(args'[1].solved) =>
              /\ result'[1].currentStreak = 0
              /\ result'[1].longestStreak = result[1].longestStreak ]_vars

\* C19 witness: after a streak of two, a loss and a new win the current
\* streak is 1 and the longest is still 2.
C19_Witness ==
    /\ args # null
    /\ DidWin(args[1].solved)
    /\ result[1].totalPlayed = 4
    /\ result[1].totalCompleted = 3
    /\ result[1].currentStreak = 1
    /\ result[1].longestStreak = 2

\* ------------------------------------------------------------------- C20

\* The reveal has ended: every group the player did not solve, and no other,
\* is in revealedGroups once, and the results summary is open.
RevealEnded ==
    /\ ~revealMode
    /\ debriefOpen
    /\ Len(revealedGroups) = 4 - Len(solved)
    /\ Len(revealedGroups) \in 1..4
    /\ {revealedGroups[i].id : i \in 1..Len(revealedGroups)}
         = {puzzle[1].groups[i].id : i \in 1..4}
             \ {solved[i].id : i \in 1..Len(solved)}

\* C20: once the session is lost, with timers firing and no reload, the
\* reveal ends: revealMode is false with every unsolved group (1 to 4 of
\* them) in revealedGroups, and the results summary is open.
C20_RevealEnds == isLoss ~> RevealEnded

\* C20 witness: a game lost with two groups solved, after the reveal of the
\* other two.
C20_Witness ==
    /\ isLoss /\ Len(solved) = 2
    /\ RevealEnded
    /\ Len(revealedGroups) = 2

\* ------------------------------------------------------------------- C21

\* A submit the page accepts: a puzzle is shown, the game is running and the
\* four selected words were not guessed before.
AcceptedSubmit ==
    /\ submit
    /\ puzzle # null
    /\ ~lockedOut
    /\ ~Finished(mistakesLeft, solved)
    /\ Len(selected) = 4
    /\ normalizeSet(selected) \notin Range(guessedSets)

\* The groups of the puzzle whose word set is the selection.
GroupsSelected ==
    {i \in 1..4 : Range(puzzle[1].groups[i].words) = Range(selected)}

\* C21: an accepted submit of the four words of a group appends exactly that
\* group to the end of solved, empties the selection and leaves mistakesLeft
\* and seed unchanged.
C21_CorrectSubmitEffect ==
    [][ (AcceptedSubmit /\ GroupsSelected # {}) =>
          /\ \E i \in GroupsSelected :
                solved' = Append(solved, SolvedGroupOf(puzzle[1].groups[i]))
          /\ selected' = <<>>
          /\ mistakesLeft' = mistakesLeft
          /\ seed' = seed ]_vars

\* C21 witness: the third group was solved after a mistake and a reshuffle.
C21_Witness ==
    /\ message = "Correct!"
    /\ Len(solved) = 3 /\ mistakesLeft = 3 /\ seed = 1
    /\ selected = <<>>

\* ------------------------------------------------------------------- C22

\* C22: an accepted submit of four words that are no group's word set
\* (one away or not) takes exactly 1 from mistakesLeft, adds the signature of
\* the selection to guessedSets, and leaves the selection, solved and seed
\* unchanged.
C22_WrongSubmitEffect ==
    [][ (AcceptedSubmit /\ GroupsSelected = {}) =>
          /\ mistakesLeft' = mistakesLeft - 1
          /\ guessedSets' = Append(guessedSets, normalizeSet(selected))
          /\ message' \in {"One away...", "Nope."}
          /\ selected' = selected
          /\ solved' = solved
          /\ seed' = seed ]_vars

\* C22 witness: a one-away guess after a solved group and a reshuffle cost
\* a mistake and is still selected.
C22_Witness ==
    /\ message = "One away..."
    /\ Len(selected) = 4
    /\ guessedSets[Len(guessedSets)] = normalizeSet(selected)
    /\ Len(solved) = 1 /\ seed = 1
    /\ mistakesLeft < 4

\* ------------------------------------------------------------------- C23

\* s without the word w, the other words in their order.
Without(s, w) == Filter(s, Range(s) \ {w})

\* C23: toggleWord(w) takes w out of the selection if it is selected, adds w
\* at the end if it is not and fewer than 4 words are selected, and leaves
\* the selection as it is when 4 other words are selected or the game is over
\* or locked out; it never changes seed, mistakesLeft, solved or guessedSets;
\* and after every step the selection has at most 4 words, none twice.
C23_ToggleWordEffect ==
    [][ /\ Len(selected') <= 4
        /\ Cardinality(Range(selected')) = Len(selected')
        /\ \A w \in FlatWords(GROUPS) :
              toggleWord(w) =>
                 /\ UNCHANGED <<seed, mistakesLeft, solved, guessedSets>>
                 /\ selected' =
                       IF lockedOut \/ (puzzle # null /\ Finished(mistakesLeft, solved))
                       THEN selected
                       ELSE IF w \in Range(selected) THEN Without(selected, w)
                       ELSE IF Len(selected) < 4 THEN Append(selected, w)
                       ELSE selected ]_vars

\* C23 witness: after a wrong guess of four words the last of them was
\* clicked again and left the selection.
C23_Witness ==
    /\ selected = SubSeq(WrongPicks[1], 1, 3)
    /\ guessedSets # <<>>
    /\ guessedSets[Len(guessedSets)] = normalizeSet(WrongPicks[1])
    /\ message = ""
    /\ mistakesLeft = 3

\* ------------------------------------------------------------------- C24

\* C24: shuffleNow in a running game adds exactly 1 to the reshuffle counter,
\* empties the selection and leaves mistakesLeft, solved and guessedSets
\* unchanged; while the page shows a game that is over or locked out, no step
\* changes the counter or the selection.
C24_ShuffleNowEffect ==
    [][ /\ (shuffleNow /\ puzzle # null /\ ~lockedOut
             /\ ~Finished(mistakesLeft, solved)) =>
              /\ seed' = seed + 1
              /\ selected' = <<>>
              /\ UNCHANGED <<mistakesLeft, solved, guessedSets>>
        /\ (puzzle # null /\ puzzle' # null
             /\ (lockedOut \/ Finished(mistakesLeft, solved))) =>
              UNCHANGED <<seed, selected>> ]_vars

\* C24 witness: a reshuffle with three words selected, after a wrong guess
\* and a solved group, left the counter at 1 and nothing selected.
C24_Witness ==
    /\ puzzle # null /\ ~lockedOut
    /\ seed = 1 /\ selected = <<>> /\ message = ""
    /\ mistakesLeft = 3 /\ Len(solved) = 1 /\ Len(guessedSets) = 2

\* ------------------------------------------------------------------- C25

\* The number of places that show the word w: the rows of the board, the
\* active reveal row (rendered while revealMode with an active group) and the
\* grid.
Shown(w) ==
    Cardinality({i \in 1..Len(boardRows) : w \in Range(boardRows[i].words)})
    + (IF revealMode /\ activeRevealGroup # null /\ w \in Range(activeRevealWords)
       THEN 1 ELSE 0)
    + (IF w \in gridWords THEN 1 ELSE 0)

\* C25: in every state of a loaded page each of the 16 words of the puzzle is
\* shown in exactly one place: a board row, the active reveal row or the grid.
C25_EachWordShownOnce ==
    puzzle # null => \A w \in Range(PuzzleWords(puzzle[1])) : Shown(w) = 1

\* ------------------------------------------------------------------- C26

\* C26: solved holds groups of the puzzle, none of them twice, and no
\* selected word of a running game belongs to a solved group; so with four
\* groups in solved each group of the puzzle is there exactly once.
C26_SolvedGroupsDistinct ==
    puzzle # null =>
        /\ \A i \in 1..Len(solved) :
              \E k \in 1..4 : solved[i] = SolvedGroupOf(puzzle[1].groups[k])
        /\ \A i, j \in 1..Len(solved) : i # j => solved[i].id # solved[j].id
        /\ Range(selected) \cap FlatWords(solved) = {}
        /\ Len(solved) = 4 =>
              \A k \in 1..4 :
                 Cardinality({i \in 1..4 : solved[i].id = puzzle[1].groups[k].id}) = 1

\* C26 witness: three groups are solved and three words of the last group
\* are selected.
C26_Witness ==
    /\ puzzle # null /\ Len(solved) = 3 /\ Len(selected) = 3
    /\ Range(selected) \subseteq FlatWords(puzzle[1].groups) \ FlatWords(solved)
    /\ mistakesLeft = 2

\* ------------------------------------------------------------------- C27

\* The sequence s holds no element twice.
NoRepeat(s) == Cardinality(Range(s)) = Len(s)

\* C27: in the page and in every saved record, guessedSets holds no
\* signature twice and has one signature per solved group and per mistake
\* used: |guessedSets| = |solved| + (4 - mistakesLeft).
C27_OneSignaturePerAcceptedSubmit ==
    /\ NoRepeat(guessedSets)
    /\ Len(guessedSets) = Len(solved) + (4 - mistakesLeft)
    /\ \A d \in Dates :
          SavedOf(localStorage, d) # null =>
             LET rec == SavedOf(localStorage, d)[1]
             IN  /\ NoRepeat(rec.guessedSets)
                 /\ Len(rec.guessedSets) = Len(rec.solved) + (4 - rec.mistakesLeft)

\* C27 witness: a reloaded game with two groups solved and three mistakes
\* used has five signatures.
C27_Witness ==
    /\ puzzle # null /\ ~lockedOut
    /\ Len(solved) = 2 /\ mistakesLeft = 1 /\ Len(guessedSets) = 5
    /\ selected = <<>> /\ message = ""
    /\ seed = 0

\* ------------------------------------------------------------------- C28

\* C28: no state of the page and no saved record has four solved groups
\* together with mistakesLeft = 0, and once mistakesLeft is 0, in the page or
\* in the record of a date, the fourth group is never solved afterwards.
C28_NeverWonWithoutMistakesLeft ==
    [][ /\ ~(Len(solved') = 4 /\ mistakesLeft' = 0)
        /\ (puzzle # null /\ puzzle' # null /\ mistakesLeft = 0) =>
              (mistakesLeft' = 0 /\ Len(solved') < 4)
        /\ \A d \in Dates :
              /\ SavedOf(localStorage', d) # null =>
                    ~(/\ Len(SavedOf(localStorage', d)[1].solved) = 4
                      /\ SavedOf(localStorage', d)[1].mistakesLeft = 0)
              /\ (/\ SavedOf(localStorage, d) # null
                  /\ SavedOf(localStorage, d)[1].mistakesLeft = 0) =>
                    /\ SavedOf(localStorage', d) # null
                    /\ SavedOf(localStorage', d)[1].mistakesLeft = 0
                    /\ Len(SavedOf(localStorage', d)[1].solved) < 4 ]_vars

\* C28 witness: a game lost with two groups solved (with three solved only
\* the words of the last group are left to pick), loaded again.
C28_Witness ==
    /\ puzzle # null /\ lockedOut
    /\ mistakesLeft = 0 /\ Len(solved) = 2
    /\ SavedOf(localStorage, puzzle[1].date)[1].mistakesLeft = 0
    /\ selected = <<>>

\* ------------------------------------------------------------------- C29

\* The played flag of date d is set.
Played(ls, d) == IsTrue(getItem(ls, getPlayedKeyForDate(d)))

\* C29: the played flag of a date is set only with a saved game of that date
\* that is over, and the page is locked out only with a game that is over; a
\* load that finds a saved game in progress restores its mistakesLeft and
\* solved and is not locked out, so that none of toggleWord, submit,
\* shuffleNow and clear returns early.
C29_LockedOutOnlyAfterGameOver ==
    [][ /\ \A d \in Dates :
              Played(localStorage', d) =>
                 /\ SavedOf(localStorage', d) # null
                 /\ Finished(SavedOf(localStorage', d)[1].mistakesLeft,
                             SavedOf(localStorage', d)[1].solved)
        /\ lockedOut' => (puzzle' # null /\ Finished(mistakesLeft', solved'))
        /\ (/\ puzzle = null /\ puzzle' # null
            /\ SavedOf(localStorage, puzzle'[1].date) # null
            /\ ~Finished(SavedOf(localStorage, puzzle'[1].date)[1].mistakesLeft,
                         SavedOf(localStorage, puzzle'[1].date)[1].solved)) =>
              /\ mistakesLeft' = SavedOf(localStorage, puzzle'[1].date)[1].mistakesLeft
              /\ solved' = SavedOf(localStorage, puzzle'[1].date)[1].solved
              /\ ~lockedOut'
              /\ ~Played(localStorage', puzzle'[1].date) ]_vars

\* C29 witness: a game in progress as a load restores it (one group solved,
\* two mistakes used, played flag not set, not locked out) took a click.
C29_Witness ==
    /\ puzzle # null /\ ~lockedOut /\ loadEffect = "done"
    /\ Len(solved) = 1 /\ mistakesLeft = 2 /\ seed = 0
    /\ Len(selected) = 1
    /\ ~Played(localStorage, puzzle[1].date)

\* ------------------------------------------------------------------- C30

\* The reveal-done flag of date d is set.
RevealDone(ls, d) == getItem(ls, RevealDoneKey(d)) = <<"true">>

\* C30: revealMode is set only for a lost game, and only in a step that
\* finds the reveal-done flag of the date unset and sets it; the flag is
\* never taken back, so the reveal starts at most once per date, and a load
\* that finds the flag does not set revealMode.
C30_RevealStartsOncePerDate ==
    [][ /\ revealMode' =>
              (puzzle' # null /\ mistakesLeft' = 0 /\ Len(solved') < 4)
        /\ (~revealMode /\ revealMode') =>
              /\ ~RevealDone(localStorage, puzzle'[1].date)
              /\ RevealDone(localStorage', puzzle'[1].date)
        /\ \A d \in Dates :
              RevealDone(localStorage, d) => RevealDone(localStorage', d)
        /\ (/\ puzzle = null /\ puzzle' # null
            /\ RevealDone(localStorage, puzzle'[1].date)) => ~revealMode' ]_vars

\* C30 witness: a lost game loaded again after its reveal had started: the
\* flag is set, the page is locked out and no reveal runs.
C30_Witness ==
    /\ puzzle # null /\ lockedOut
    /\ mistakesLeft = 0 /\ Len(solved) = 1
    /\ RevealDone(localStorage, puzzle[1].date)
    /\ ~revealMode /\ revealedGroups = <<>>

====
